---------------------------- MODULE Spec2Model ----------------------------
(***************************************************************************)
(* img-processor: a Unix-socket service that reads one length-prefixed     *)
(* image per connection, transcodes it and writes one status-prefixed      *)
(* frame back (src/img-processor/src/main.rs).                             *)
(*                                                                         *)
(* Bytes are integers 0..255 and byte strings are sequences of them.  A    *)
(* payload of n equal bytes b is kept run-length encoded as [cap, n, b],   *)
(* so that a 10 MiB payload is one record.  TLC integers are 32 bit        *)
(* signed: declared lengths are drawn from values below 2^31.              *)
(***************************************************************************)
EXTENDS Integers, Sequences, FiniteSets, TLC

(* ------------------------------ bounds -------------------------------- *)
MaxShort == 1
MaxAcceptErrs == 2

(* ------------------------- program constants -------------------------- *)
MAX_IMAGE_SIZE == 10 * 1024 * 1024

\* "Invalid size"
InvalidSizeMsg == <<73, 110, 118, 97, 108, 105, 100, 32, 115, 105, 122, 101>>
\* "Read failed"
ReadFailedMsg == <<82, 101, 97, 100, 32, 102, 97, 105, 108, 101, 100>>
\* "Decode failed: "
DecodeFailedPrefix ==
    <<68, 101, 99, 111, 100, 101, 32, 102, 97, 105, 108, 101, 100, 58, 32>>

(* ----------------------------- environment ---------------------------- *)
\* Two connections: handlers share no variable, so a third would add only
\* further interleavings of the same steps.
Conns == {1, 2}
NoTask == 0

\* The 4-byte headers a peer may send: 0, 2, 10 MiB, 10 MiB + 1, 2^31 - 1.
Hdrs ==
    { <<0, 0, 0, 0>>, <<0, 0, 0, 2>>, <<0, 160, 0, 0>>, <<0, 160, 0, 1>>,
      <<127, 255, 255, 255>> }

\* Payload bytes a peer may send: 137 opens a decodable image, 104 and 71
\* open byte strings no decoder accepts.
ImgByte == 137
FillBytes == {137, 104, 71}

(* ----------------------------- conversions ---------------------------- *)
\* u32::from_be_bytes
U32FromBE(s) == ((s[1] * 256 + s[2]) * 256 + s[3]) * 256 + s[4]

\* The length with its bytes least significant first.
U32ToBE_LittleEndian(n) ==
    << n % 256, (n \div 256) % 256, (n \div 65536) % 256,
       (n \div 16777216) % 256 >>

\* (n as u32).to_be_bytes(): the low 32 bits of n, most significant first
U32ToBE(n) ==
    << (n \div 16777216) % 256, (n \div 65536) % 256, (n \div 256) % 256,
       n % 256 >>

IsPrefix(s, t) == Len(s) <= Len(t) /\ SubSeq(t, 1, Len(s)) = s

(* ------------------------------ transcoder ---------------------------- *)
\* image::load_from_memory on a complete payload: an image or a reason
LoadFromMemory(d) ==
    IF d.b = ImgByte
    THEN [ok |-> TRUE, val |-> <<d.b, d.cap % 256>>]
    ELSE [ok |-> FALSE, val |-> <<63, d.b>>]

\* webp::Encoder::from_rgba(..).encode(85.0).to_vec()
EncodeWebp(img) == <<87>> \o img

\* process_image with the reason returned bare, without "Decode failed: ".
process_image_BareReason(d) ==
    LET r == LoadFromMemory(d)
    IN  IF r.ok
        THEN [ok |-> TRUE, val |-> EncodeWebp(r.val)]
        ELSE [ok |-> FALSE, val |-> r.val]

process_image(d) ==
    LET r == LoadFromMemory(d)
    IN  IF r.ok
        THEN [ok |-> TRUE, val |-> EncodeWebp(r.val)]
        ELSE [ok |-> FALSE, val |-> DecodeFailedPrefix \o r.val]

(* ------------------------------- framing ------------------------------ *)
\* send_response with the status byte of send_error.
send_response_ErrorStatus(bytes) == <<1>> \o U32ToBE(Len(bytes)) \o bytes

\* What the three write_all calls of send_response put on the stream.
send_response(bytes) == <<0>> \o U32ToBE(Len(bytes)) \o bytes

\* What the three write_all calls of send_error put on the stream.
send_error(msg) == <<1>> \o U32ToBE(Len(msg)) \o msg

VARIABLES
    mainpc,      \* position of main: "start","bind","perm","select","exit"
    exitCode,    \* what main returned: "none" yet, "ok", or "err_" and the
                 \* call whose error it returned
    sockFile,    \* whether an artifact exists at SOCKET_PATH
    sigint,      \* the interrupt signal has been delivered
    acceptErrs,  \* failed accepts so far
    running,     \* the task that holds the thread in a synchronous section
    pc,          \* per connection: position of its handler
    outcome,     \* per connection: how the handler ended
    eof,         \* per connection: the peer has shut down its sending side
    gone,        \* per connection: the peer has closed its socket
    len_buf,     \* per connection: length bytes read so far
    len,         \* per connection: the decoded length
    data,        \* per connection: the payload buffer
    calls,       \* per connection: the inputs process_image was called with
    sent,        \* per connection: the calls of send_response / send_error
    wseg,        \* per connection: the bytes the pending send still owes
    out          \* per connection: the bytes written to the stream

mainVars == <<mainpc, exitCode, sockFile, sigint, acceptErrs>>
connVars == <<pc, outcome, eof, gone, len_buf, len, data, calls, sent, wseg, out>>
vars == <<mainpc, exitCode, sockFile, sigint, acceptErrs, running,
          pc, outcome, eof, gone, len_buf, len, data, calls, sent, wseg, out>>

NoData == [cap |-> 0, n |-> 0, b |-> 0]

InFlight == {"ReadingLength", "ReadingPayload", "Processing", "WritingResponse"}

Init ==
    /\ mainpc = "start"
    /\ exitCode = "none"
    /\ sockFile \in BOOLEAN
    /\ sigint = FALSE
    /\ acceptErrs = 0
    /\ running = NoTask
    /\ pc = [c \in Conns |-> "Unconnected"]
    /\ outcome = [c \in Conns |-> "none"]
    /\ eof = [c \in Conns |-> FALSE]
    /\ gone = [c \in Conns |-> FALSE]
    /\ len_buf = [c \in Conns |-> <<>>]
    /\ len = [c \in Conns |-> 0]
    /\ data = [c \in Conns |-> NoData]
    /\ calls = [c \in Conns |-> <<>>]
    /\ sent = [c \in Conns |-> <<>>]
    /\ wseg = [c \in Conns |-> <<>>]
    /\ out = [c \in Conns |-> <<>>]

(* -------------------------------- main -------------------------------- *)
\* let _ = std::fs::remove_file(SOCKET_PATH): an artifact left at the path
\* is removed, or the removal fails (an artifact this user may not remove)
\* and the error is discarded.
MainRemoveStale ==
    /\ mainpc = "start"
    /\ mainpc' = "bind"
    /\ sockFile' \in (IF sockFile THEN {FALSE, TRUE} ELSE {FALSE})
    /\ UNCHANGED <<exitCode, sigint, acceptErrs, running, connVars>>

\* UnixListener::bind(SOCKET_PATH)?: binding creates the socket file; it
\* fails when an artifact is still at the path, and may fail otherwise, and
\* main returns the error.
MainBind ==
    /\ mainpc = "bind"
    /\ \/ /\ ~sockFile
          /\ mainpc' = "perm"
          /\ sockFile' = TRUE
          /\ UNCHANGED exitCode
       \/ /\ mainpc' = "exit"
          /\ exitCode' = "err_bind"
          /\ UNCHANGED sockFile
    /\ UNCHANGED <<sigint, acceptErrs, running, connVars>>

\* std::fs::set_permissions(SOCKET_PATH, 0o666)?: on failure main returns
\* the error at once, past the remove_file at its end.
MainSetPermissions ==
    /\ mainpc = "perm"
    /\ \/ /\ mainpc' = "select"
          /\ UNCHANGED exitCode
       \/ /\ mainpc' = "exit"
          /\ exitCode' = "err_set_permissions"
    /\ UNCHANGED <<sockFile, sigint, acceptErrs, running, connVars>>

\* The interrupt signal is delivered while main waits in select!.
Signal ==
    /\ mainpc = "select"
    /\ ~sigint
    /\ sigint' = TRUE
    /\ UNCHANGED <<mainpc, exitCode, sockFile, acceptErrs, running, connVars>>

\* What dropping the runtime does to a handler: a task that has not
\* returned is dropped at its await point and its stream is closed.
DropTask(c) ==
    IF pc[c] \in InFlight THEN "cancelled" ELSE outcome[c]

\* The shutdown branch of select! completes: the accept loop is dropped,
\* the socket file removed, main returns Ok and the runtime is dropped
\* with every task still spawned on it.
MainShutdown ==
    /\ mainpc = "select"
    /\ sigint
    /\ running = NoTask
    /\ mainpc' = "exit"
    /\ exitCode' = "ok"
    /\ sockFile' = FALSE
    /\ outcome' = [c \in Conns |-> DropTask(c)]
    /\ pc' = [c \in Conns |-> IF pc[c] \in InFlight THEN "Closed" ELSE pc[c]]
    /\ UNCHANGED <<sigint, acceptErrs, running, eof, gone, len_buf, len, data,
                   calls, sent, wseg, out>>

(* ----------------------------- accept_loop ---------------------------- *)
\* A peer connects to the bound socket; connections are named in the
\* order they connect.
PeerConnect(c) ==
    /\ mainpc \in {"perm", "select"}
    /\ pc[c] = "Unconnected"
    /\ \A d \in Conns : d < c => pc[d] # "Unconnected"
    /\ pc' = [pc EXCEPT ![c] = "Backlog"]
    /\ UNCHANGED <<mainVars, running, outcome, eof, gone, len_buf, len, data,
                   calls, sent, wseg, out>>

\* AcceptOk of an accept loop that outlives select!: it still takes a
\* connection after the shutdown branch has completed.
AcceptOk_AfterShutdown(c) ==
    /\ mainpc \in {"select", "exit"}
    /\ running = NoTask
    /\ pc[c] = "Backlog"
    /\ \A d \in Conns : d < c => pc[d] # "Backlog"
    /\ pc' = [pc EXCEPT ![c] = "ReadingLength"]
    /\ UNCHANGED <<mainVars, running, outcome, eof, gone, len_buf, len, data,
                   calls, sent, wseg, out>>

\* listener.accept() returns Ok: the oldest waiting connection is handed
\* to a new task running handle_connection.
AcceptOk(c) ==
    /\ mainpc = "select"
    /\ running = NoTask
    /\ pc[c] = "Backlog"
    /\ \A d \in Conns : d < c => pc[d] # "Backlog"
    /\ pc' = [pc EXCEPT ![c] = "ReadingLength"]
    /\ UNCHANGED <<mainVars, running, outcome, eof, gone, len_buf, len, data,
                   calls, sent, wseg, out>>

\* AcceptErr that leaves the loop on the error: accept_loop returns, its
\* branch of select! completes and main goes on to exit.
AcceptErr_BreaksLoop ==
    /\ mainpc = "select"
    /\ running = NoTask
    /\ acceptErrs < MaxAcceptErrs
    /\ acceptErrs' = acceptErrs + 1
    /\ mainpc' = "exit"
    /\ exitCode' = "ok"
    /\ sockFile' = FALSE
    /\ UNCHANGED <<sigint, running, connVars>>

\* listener.accept() returns Err: logged, the loop goes on.
AcceptErr ==
    /\ mainpc = "select"
    /\ running = NoTask
    /\ acceptErrs < MaxAcceptErrs
    /\ acceptErrs' = acceptErrs + 1
    /\ UNCHANGED <<mainpc, exitCode, sockFile, sigint, running, connVars>>

(* -------------------------------- peer -------------------------------- *)
\* The peer shuts down its sending side: the handler's next read sees
\* the end of the stream.
PeerShutdownWrite(c) ==
    /\ pc[c] \in InFlight
    /\ ~eof[c]
    /\ eof' = [eof EXCEPT ![c] = TRUE]
    /\ UNCHANGED <<mainVars, running, pc, outcome, gone, len_buf, len, data,
                   calls, sent, wseg, out>>

\* The peer closes its socket: reads see the end of the stream and
\* writes fail.
PeerClose(c) ==
    /\ pc[c] \in InFlight
    /\ ~gone[c]
    /\ eof' = [eof EXCEPT ![c] = TRUE]
    /\ gone' = [gone EXCEPT ![c] = TRUE]
    /\ UNCHANGED <<mainVars, running, pc, outcome, len_buf, len, data,
                   calls, sent, wseg, out>>

(* -------------------------- handle_connection ------------------------- *)
\* The sizes one transfer of `need` bytes may have: all of them, or all
\* but a few.
Sizes(need) == {k \in {need - j : j \in 0..MaxShort} : k >= 1}

\* The continuations of the length bytes read so far, for a peer that
\* sends one of the headers hdrs.
NextLenBytes(sofar, k, hdrs) ==
    { SubSeq(h, Len(sofar) + 1, Len(sofar) + k) :
        h \in {g \in hdrs : IsPrefix(sofar, g)} }

\* The validation without its test for zero.
InvalidSize_ZeroAccepted(n) == n > MAX_IMAGE_SIZE

\* if len == 0 || len > MAX_IMAGE_SIZE
InvalidSize(n) == n = 0 \/ n > MAX_IMAGE_SIZE

\* PollWrite that tries again after a failed write instead of returning.
PollWrite_RetryOnError(c, owed) ==
    IF gone[c]
    THEN /\ pc' = [pc EXCEPT ![c] = "WritingResponse"]
         /\ wseg' = [wseg EXCEPT ![c] = owed]
         /\ UNCHANGED <<outcome, out>>
    ELSE \E k \in Sizes(Len(owed)) :
           /\ out' = [out EXCEPT ![c] = out[c] \o SubSeq(owed, 1, k)]
           /\ wseg' = [wseg EXCEPT ![c] = SubSeq(owed, k + 1, Len(owed))]
           /\ IF k = Len(owed)
              THEN /\ pc' = [pc EXCEPT ![c] = "Closed"]
                   /\ outcome' = [outcome EXCEPT ![c] = "served"]
              ELSE /\ pc' = [pc EXCEPT ![c] = "WritingResponse"]
                   /\ UNCHANGED outcome

\* PollWrite that discards the error of a failed write and carries on as
\* if the bytes had been written.
PollWrite_IgnoresError(c, owed) ==
    IF gone[c]
    THEN /\ pc' = [pc EXCEPT ![c] = IF Len(owed) > 1 THEN "WritingResponse"
                                                     ELSE "Closed"]
         /\ outcome' = [outcome EXCEPT ![c] = IF Len(owed) > 1 THEN outcome[c]
                                                               ELSE "served"]
         /\ wseg' = [wseg EXCEPT ![c] = SubSeq(owed, 2, Len(owed))]
         /\ UNCHANGED out
    ELSE \E k \in Sizes(Len(owed)) :
           /\ out' = [out EXCEPT ![c] = out[c] \o SubSeq(owed, 1, k)]
           /\ wseg' = [wseg EXCEPT ![c] = SubSeq(owed, k + 1, Len(owed))]
           /\ IF k = Len(owed)
              THEN /\ pc' = [pc EXCEPT ![c] = "Closed"]
                   /\ outcome' = [outcome EXCEPT ![c] = "served"]
              ELSE /\ pc' = [pc EXCEPT ![c] = "WritingResponse"]
                   /\ UNCHANGED outcome

\* The send future of c is polled with the bytes `owed`: a write on a
\* stream the peer has closed fails, and send_* returns the error, which
\* handle_connection discards before it returns.  Otherwise the stream
\* takes k bytes; when it took them all, flush returns Ok and the handler
\* returns, which closes the stream; when it did not, the handler waits
\* for room.
PollWrite(c, owed) ==
    IF gone[c]
    THEN /\ pc' = [pc EXCEPT ![c] = "Closed"]
         /\ outcome' = [outcome EXCEPT ![c] = "write_failed"]
         /\ wseg' = [wseg EXCEPT ![c] = owed]
         /\ UNCHANGED out
    ELSE \E k \in Sizes(Len(owed)) :
           /\ out' = [out EXCEPT ![c] = out[c] \o SubSeq(owed, 1, k)]
           /\ wseg' = [wseg EXCEPT ![c] = SubSeq(owed, k + 1, Len(owed))]
           /\ IF k = Len(owed)
              THEN /\ pc' = [pc EXCEPT ![c] = "Closed"]
                   /\ outcome' = [outcome EXCEPT ![c] = "served"]
              ELSE /\ pc' = [pc EXCEPT ![c] = "WritingResponse"]
                   /\ UNCHANGED outcome

\* let _ = send_response(&mut stream, ..).await / send_error(..).await:
\* the call is made and its future polled for the first time.
Send(c, fn, arg) ==
    /\ sent' = [sent EXCEPT ![c] = Append(sent[c], [fn |-> fn, arg |-> arg])]
    /\ PollWrite(c, IF fn = "send_response" THEN send_response(arg)
                                            ELSE send_error(arg))

\* ReadLengthOf that allocates the buffer for the declared length before
\* it validates the length.
ReadLengthOf_AllocatesFirst(c, hdrs) ==
    /\ pc[c] = "ReadingLength"
    /\ running = NoTask
    /\ ~eof[c]
    /\ \E k \in 1..(4 - Len(len_buf[c])) :
       \E bytes \in NextLenBytes(len_buf[c], k, hdrs) :
         LET buf == len_buf[c] \o bytes
             n == U32FromBE(buf)
         IN  /\ len_buf' = [len_buf EXCEPT ![c] = buf]
             /\ IF Len(buf) < 4
                THEN UNCHANGED <<pc, outcome, len, data, sent, wseg, out>>
                ELSE /\ len' = [len EXCEPT ![c] = n]
                     /\ data' = [data EXCEPT
                                   ![c] = [cap |-> n, n |-> 0, b |-> 0]]
                     /\ IF InvalidSize(n)
                        THEN Send(c, "send_error", InvalidSizeMsg)
                        ELSE /\ pc' = [pc EXCEPT ![c] = "ReadingPayload"]
                             /\ UNCHANGED <<outcome, sent, wseg, out>>
    /\ UNCHANGED <<mainVars, running, eof, gone, calls>>

\* stream.read_exact(&mut len_buf): k more length bytes arrive.  With the
\* fourth byte the length is decoded and validated, and either the error
\* response is sent or the payload buffer allocated.
ReadLengthOf(c, hdrs) ==
    /\ pc[c] = "ReadingLength"
    /\ running = NoTask
    /\ ~eof[c]
    /\ \E k \in 1..(4 - Len(len_buf[c])) :
       \E bytes \in NextLenBytes(len_buf[c], k, hdrs) :
         LET buf == len_buf[c] \o bytes
             n == U32FromBE(buf)
         IN  /\ len_buf' = [len_buf EXCEPT ![c] = buf]
             /\ IF Len(buf) < 4
                THEN UNCHANGED <<pc, outcome, len, data, sent, wseg, out>>
                ELSE /\ len' = [len EXCEPT ![c] = n]
                     /\ IF InvalidSize(n)
                        THEN /\ Send(c, "send_error", InvalidSizeMsg)
                             /\ UNCHANGED data
                        ELSE /\ data' = [data EXCEPT
                                           ![c] = [cap |-> n, n |-> 0, b |-> 0]]
                             /\ pc' = [pc EXCEPT ![c] = "ReadingPayload"]
                             /\ UNCHANGED <<outcome, sent, wseg, out>>
    /\ UNCHANGED <<mainVars, running, eof, gone, calls>>

ReadLength(c) == ReadLengthOf(c, Hdrs)

\* ReadLengthEof that answers the short length like a short payload.
ReadLengthEof_Responds(c) ==
    /\ pc[c] = "ReadingLength"
    /\ running = NoTask
    /\ eof[c]
    /\ Send(c, "send_error", ReadFailedMsg)
    /\ UNCHANGED <<mainVars, running, eof, gone, len_buf, len, data, calls>>

\* ReadLengthEof that hands the read error up to main, which exits on it.
ReadLengthEof_StopsListener(c) ==
    /\ pc[c] = "ReadingLength"
    /\ running = NoTask
    /\ eof[c]
    /\ mainpc' = "exit"
    /\ exitCode' = "err_read"
    /\ pc' = [pc EXCEPT ![c] = "Closed"]
    /\ outcome' = [outcome EXCEPT ![c] = "short_length"]
    /\ UNCHANGED <<sockFile, sigint, acceptErrs, running, eof, gone, len_buf,
                   len, data, calls, sent, wseg, out>>

\* stream.read_exact(&mut len_buf) fails: the stream ended first.
ReadLengthEof(c) ==
    /\ pc[c] = "ReadingLength"
    /\ running = NoTask
    /\ eof[c]
    /\ pc' = [pc EXCEPT ![c] = "Closed"]
    /\ outcome' = [outcome EXCEPT ![c] = "short_length"]
    /\ UNCHANGED <<mainVars, running, eof, gone, len_buf, len, data, calls,
                   sent, wseg, out>>

\* ReadPayloadOf that goes on to process_image after its first read,
\* whether or not the buffer is full.
ReadPayloadOf_ProcessesEarly(c, fills) ==
    /\ pc[c] = "ReadingPayload"
    /\ running = NoTask
    /\ ~eof[c]
    /\ \E k \in Sizes(data[c].cap - data[c].n) :
       \E b \in IF data[c].n = 0 THEN fills ELSE {data[c].b} :
         /\ data' = [data EXCEPT ![c] = [cap |-> data[c].cap,
                                         n |-> data[c].n + k, b |-> b]]
         /\ pc' = [pc EXCEPT ![c] = "Processing"]
         /\ running' = c
    /\ UNCHANGED <<mainVars, outcome, eof, gone, len_buf, len, calls, sent,
                   wseg, out>>

\* stream.read_exact(&mut data): more payload bytes arrive.  When the buffer
\* is full the handler goes on, without yielding, to process_image.
ReadPayloadOf(c, fills) ==
    /\ pc[c] = "ReadingPayload"
    /\ running = NoTask
    /\ ~eof[c]
    /\ \E k \in Sizes(data[c].cap - data[c].n) :
       \E b \in IF data[c].n = 0 THEN fills ELSE {data[c].b} :
         /\ data' = [data EXCEPT ![c] = [cap |-> data[c].cap,
                                         n |-> data[c].n + k, b |-> b]]
         /\ IF data[c].n + k = data[c].cap
            THEN /\ pc' = [pc EXCEPT ![c] = "Processing"]
                 /\ running' = c
            ELSE UNCHANGED <<pc, running>>
    /\ UNCHANGED <<mainVars, outcome, eof, gone, len_buf, len, calls, sent,
                   wseg, out>>

ReadPayload(c) == ReadPayloadOf(c, FillBytes)

\* ReadPayloadEof that ignores the failed read and decodes what it has.
ReadPayloadEof_Processes(c) ==
    /\ pc[c] = "ReadingPayload"
    /\ running = NoTask
    /\ eof[c]
    /\ pc' = [pc EXCEPT ![c] = "Processing"]
    /\ running' = c
    /\ UNCHANGED <<mainVars, outcome, eof, gone, len_buf, len, data, calls,
                   sent, wseg, out>>

\* stream.read_exact(&mut data) fails: the stream ended before the payload
\* was complete.
ReadPayloadEof(c) ==
    /\ pc[c] = "ReadingPayload"
    /\ running = NoTask
    /\ eof[c]
    /\ Send(c, "send_error", ReadFailedMsg)
    /\ UNCHANGED <<mainVars, running, eof, gone, len_buf, len, data, calls>>

\* Process with one payload buffer shared by all handlers.
Process_SharedBuffer(c) ==
    /\ pc[c] = "Processing"
    /\ running = c
    /\ calls' = [calls EXCEPT ![c] = Append(calls[c], data[1])]
    /\ LET r == process_image(data[1])
       IN  IF r.ok THEN Send(c, "send_response", r.val)
                   ELSE Send(c, "send_error", r.val)
    /\ running' = NoTask
    /\ UNCHANGED <<mainVars, eof, gone, len_buf, len, data>>

\* match process_image(&data): the call runs to its end on the thread and
\* its result is sent.
Process(c) ==
    /\ pc[c] = "Processing"
    /\ running = c
    /\ calls' = [calls EXCEPT ![c] = Append(calls[c], data[c])]
    /\ LET r == process_image(data[c])
       IN  IF r.ok THEN Send(c, "send_response", r.val)
                   ELSE Send(c, "send_error", r.val)
    /\ running' = NoTask
    /\ UNCHANGED <<mainVars, eof, gone, len_buf, len, data>>

\* Write on a runtime with more than one thread: the send future is polled
\* whether or not another task is inside process_image.
Write_OnOtherThread(c) ==
    /\ pc[c] = "WritingResponse"
    /\ PollWrite(c, wseg[c])
    /\ UNCHANGED <<mainVars, running, eof, gone, len_buf, len, data, calls,
                   sent>>

\* The stream has room again, or its peer has closed: the send future is
\* polled again.
Write(c) ==
    /\ pc[c] = "WritingResponse"
    /\ running = NoTask
    /\ PollWrite(c, wseg[c])
    /\ UNCHANGED <<mainVars, running, eof, gone, len_buf, len, data, calls,
                   sent>>

\* The steps of the program and its peers, for peers that send a header
\* of hdrs and payload bytes of fills.
NextOf(hdrs, fills) ==
    \/ MainRemoveStale
    \/ MainBind
    \/ MainSetPermissions
    \/ Signal
    \/ MainShutdown
    \/ AcceptErr
    \/ \E c \in Conns : PeerConnect(c)
    \/ \E c \in Conns : AcceptOk(c)
    \/ \E c \in Conns : PeerShutdownWrite(c)
    \/ \E c \in Conns : PeerClose(c)
    \/ \E c \in Conns : ReadLengthOf(c, hdrs)
    \/ \E c \in Conns : ReadLengthEof(c)
    \/ \E c \in Conns : ReadPayloadOf(c, fills)
    \/ \E c \in Conns : ReadPayloadEof(c)
    \/ \E c \in Conns : Process(c)
    \/ \E c \in Conns : Write(c)

Next == NextOf(Hdrs, FillBytes)

Spec == Init /\ [][Next]_vars

\* The steps main takes on its own.
MainStep ==
    MainRemoveStale \/ MainBind \/ MainSetPermissions \/ MainShutdown

\* The accept loop takes a waiting connection.
Accept == \E c \in Conns : AcceptOk(c)

\* The steps the handler of c takes without its peer doing anything more:
\* its read has seen the end of the stream, its process_image call is
\* pending, or its write meets a closed peer.
HandlerStep(c) ==
    \/ ReadLengthEof(c)
    \/ ReadPayloadEof(c)
    \/ Process(c)
    \/ gone[c] /\ Write(c)

\* What the runtime guarantees: a task that is ready is polled.  Nothing
\* is assumed of the peers or of the signal.
Fairness ==
    /\ WF_vars(MainStep)
    /\ WF_vars(Accept)
    /\ \A c \in Conns : WF_vars(HandlerStep(c))

\* Whether a handler ends does not depend on which invalid or which valid
\* length it was sent, nor on which undecodable payload: here peers send
\* the lengths 0 and 2 and the payload bytes 137 and 104.
LiveHdrs == { <<0, 0, 0, 0>>, <<0, 0, 0, 2>> }
LiveFills == {137, 104}

FairSpec == Init /\ [][NextOf(LiveHdrs, LiveFills)]_vars /\ Fairness

(* ============================== claims ================================ *)
\* A response as the wire protocol lays it out: status byte, 4-byte
\* big-endian length, payload.
Frame(status, payload) == <<status>> \o U32ToBE(Len(payload)) \o payload

\* o is a complete response: a status byte 0 or 1, a length M and exactly
\* M bytes after it.
WellFormedResponse(o) ==
    /\ Len(o) >= 5
    /\ o[1] \in {0, 1}
    /\ U32FromBE(SubSeq(o, 2, 5)) = Len(o) - 5

\* The length the peer declared, once all 4 length bytes are read.
Declared(c) == U32FromBE(len_buf[c])

ErrorCall(msg) == [fn |-> "send_error", arg |-> msg]
SuccessCall(bytes) == [fn |-> "send_response", arg |-> bytes]

\* The handler of c has issued exactly the response (status, payload): what
\* is on the stream is a prefix of its frame, all of it once the handler
\* has returned from a send that did not fail, and the handler is then done.
Responded(c, call, status) ==
    /\ sent[c] = <<call>>
    /\ pc[c] \in {"WritingResponse", "Closed"}
    /\ IsPrefix(out[c], Frame(status, call.arg))
    /\ outcome[c] = "served" => out[c] = Frame(status, call.arg)
    /\ out[c] = Frame(status, call.arg) => pc[c] = "Closed"

\* C1 (as claimed): a connection sees at most one response and at most one
\* request is read from it, and a closed connection got no response exactly
\* when its stream ended before the 4 length bytes were read.
C1_OneResponseUnlessShortLength ==
    \A c \in Conns :
        /\ Len(sent[c]) <= 1
        /\ Len(len_buf[c]) <= 4
        /\ data[c].n <= data[c].cap
        /\ pc[c] = "Closed" =>
              (sent[c] = <<>> <=> (Len(len_buf[c]) < 4 /\ eof[c]))

\* C2 (as claimed): whenever a connection is closed, the bytes written to
\* it are nothing or one complete well-formed response, never a strict
\* prefix of one.
C2_ClosedLeavesWholeFrameOrNothing ==
    \A c \in Conns :
        pc[c] = "Closed" => (out[c] = <<>> \/ WellFormedResponse(out[c]))

\* C3 (as claimed): shutdown touches only the accept loop; no dispatched
\* handler is ever cancelled by the process exiting, each ends by its own
\* return (response sent, write failed, or peer gone before the length).
C3_HandlersRunToCompletion ==
    \A c \in Conns :
        pc[c] = "Closed" => outcome[c] \in {"served", "write_failed", "short_length"}

\* C4 (as claimed): every accepted connection eventually reaches Closed,
\* whatever the peer does.
C4_EveryConnectionCloses ==
    \A c \in Conns : (pc[c] \in InFlight) ~> (pc[c] = "Closed")

\* A peer that keeps its side going: while the handler of c waits for
\* request bytes they arrive unless the peer ends the stream, and while it
\* waits to write the stream takes bytes unless the peer closes.
PeerProgress ==
    \A c \in Conns : WF_vars(ReadLength(c) \/ ReadPayload(c) \/ Write(c))

\* C4 (amended): every accepted connection whose peer keeps its side going
\* eventually reaches Closed.
C4_ClosesUnlessPeerStalls == PeerProgress => C4_EveryConnectionCloses

\* C4 is reached: a connection was accepted, served with a complete
\* response and closed by its handler's return.
C4_Witness ==
    \E c \in Conns :
        /\ pc[c] = "Closed"
        /\ outcome[c] = "served"
        /\ WellFormedResponse(out[c])

\* C5: a declared length of 0 or above 10,485,760 is answered with the
\* error response "Invalid size" and nothing else: no payload buffer is
\* allocated or filled, process_image is never called, and the handler is
\* done once the frame is out.
C5_InvalidSizeRejected ==
    \A c \in Conns :
        (Len(len_buf[c]) = 4 /\ (Declared(c) = 0 \/ Declared(c) > 10485760)) =>
            /\ Responded(c, ErrorCall(InvalidSizeMsg), 1)
            /\ data[c] = NoData
            /\ calls[c] = <<>>

\* C5 is reached: one connection declared 0, the other more than 10 MiB,
\* and both hold the complete "Invalid size" frame.
C5_Witness ==
    \E c, d \in Conns :
        /\ Len(len_buf[c]) = 4 /\ Declared(c) = 0
        /\ Len(len_buf[d]) = 4 /\ Declared(d) > 10485760
        /\ \A e \in {c, d} :
              /\ outcome[e] = "served"
              /\ out[e] = Frame(1, InvalidSizeMsg)

\* C6: when the stream ends with fewer than 4 length bytes read, the
\* handler can only close: nothing is written, no response is begun, no
\* buffer is allocated and process_image is not called.
C6_ShortLengthClosesSilently ==
    \A c \in Conns :
        (eof[c] /\ Len(len_buf[c]) < 4) =>
            /\ pc[c] \in {"ReadingLength", "Closed"}
            /\ out[c] = <<>>
            /\ sent[c] = <<>>
            /\ calls[c] = <<>>
            /\ data[c] = NoData

\* C6 is reached: a handler returned on a short length after 0 bytes and
\* another after 3.
C6_Witness ==
    \E c, d \in Conns :
        /\ outcome[c] = "short_length" /\ Len(len_buf[c]) = 0
        /\ outcome[d] = "short_length" /\ Len(len_buf[d]) = 3
        /\ pc[c] = "Closed" /\ pc[d] = "Closed"

\* C7: when the stream ends after a valid length and fewer payload bytes
\* than declared, process_image is never called and the only response the
\* handler issues is the error "Read failed".
C7_ShortPayloadReadFailed ==
    \A c \in Conns :
        (/\ Len(len_buf[c]) = 4
         /\ Declared(c) >= 1 /\ Declared(c) <= 10485760
         /\ eof[c] /\ data[c].n < Declared(c)) =>
            /\ calls[c] = <<>>
            /\ pc[c] \in {"ReadingPayload", "WritingResponse", "Closed"}
            /\ sent[c] = <<>> =>
                  /\ out[c] = <<>>
                  /\ pc[c] = "ReadingPayload" \/ outcome[c] = "cancelled"
            /\ sent[c] # <<>> => Responded(c, ErrorCall(ReadFailedMsg), 1)

\* C7 is reached: a peer declared 10 MiB, sent all but one byte and shut
\* down its sending side; it holds the complete "Read failed" frame.
C7_Witness ==
    \E c \in Conns :
        /\ Len(len_buf[c]) = 4 /\ Declared(c) = 10485760
        /\ data[c].n = 10485759
        /\ outcome[c] = "served"
        /\ out[c] = Frame(1, ReadFailedMsg)

\* C8: when process_image was called and decoding failed with a reason,
\* the one response issued is the error "Decode failed: " followed by that
\* reason, and nothing is read or computed after it.
C8_DecodeFailureReported ==
    \A c \in Conns :
        (calls[c] # <<>> /\ ~LoadFromMemory(calls[c][1]).ok) =>
            /\ Len(calls[c]) = 1
            /\ Responded(c, ErrorCall(DecodeFailedPrefix
                                        \o LoadFromMemory(calls[c][1]).val), 1)
            /\ data[c] = calls[c][1]

\* C8 is reached: the 2-byte payload "hh" was decoded without success and
\* the peer holds the complete frame with the reason.
C8_Witness ==
    \E c \in Conns :
        /\ calls[c] = <<[cap |-> 2, n |-> 2, b |-> 104]>>
        /\ outcome[c] = "served"
        /\ out[c] = Frame(1, DecodeFailedPrefix \o <<63, 104>>)

\* C9: a status byte 0 is on the stream only if process_image was called
\* on the complete payload and succeeded, and then the stream carries a
\* prefix of the frame of exactly the bytes it returned; a successful call
\* is answered by that response and no other; every other response has
\* status byte 1.
C9_SuccessIffTranscoded ==
    \A c \in Conns :
        LET succeeded == calls[c] # <<>> /\ process_image(calls[c][1]).ok
        IN  /\ Len(calls[c]) <= 1
            /\ calls[c] # <<>> =>
                  /\ calls[c][1] = data[c]
                  /\ data[c].n = data[c].cap /\ data[c].cap = Declared(c)
            /\ out[c] # <<>> => (out[c][1] = 0 <=> succeeded)
            /\ out[c] # <<>> => out[c][1] \in {0, 1}
            /\ succeeded =>
                  Responded(c, SuccessCall(process_image(calls[c][1]).val), 0)
            /\ (sent[c] # <<>> /\ ~succeeded) => sent[c][1].fn = "send_error"

\* C9 is reached: a 10 MiB image was transcoded and the peer holds the
\* complete success frame with the transcoder's bytes.
C9_Witness ==
    \E c \in Conns :
        /\ calls[c] = <<[cap |-> 10485760, n |-> 10485760, b |-> ImgByte]>>
        /\ outcome[c] = "served"
        /\ out[c] = <<0, 0, 0, 0, 3, 87, 137, 0>>
\* The response the request read on c calls for, from the bytes of c alone.
OwnResponse(c) ==
    IF Len(len_buf[c]) < 4 THEN <<>>
    ELSE IF Declared(c) = 0 \/ Declared(c) > 10485760
         THEN Frame(1, InvalidSizeMsg)
    ELSE IF data[c].n < Declared(c) THEN Frame(1, ReadFailedMsg)
    ELSE LET r == process_image(data[c])
         IN  Frame(IF r.ok THEN 0 ELSE 1, r.val)

\* All that the handler of c holds.
Handler(c) ==
    <<pc[c], outcome[c], len_buf[c], len[c], data[c], calls[c], sent[c],
      wseg[c], out[c]>>

\* C10: whatever the interleaving, what is written on a connection is a
\* prefix of the response that the request bytes read on that same
\* connection call for, the transcoder is given that connection's own
\* buffer, and no step other than the process exiting touches the handler
\* state of two connections.
C10_ConnectionsIsolated ==
    /\ [](\A c \in Conns :
            /\ IsPrefix(out[c], OwnResponse(c))
            /\ calls[c] # <<>> => calls[c] = <<data[c]>>)
    /\ [][mainpc' = mainpc =>
            \A c, d \in Conns :
                (c # d /\ Handler(c)' # Handler(c)) => Handler(d)' = Handler(d)]_vars

\* C10 is reached: two handlers are writing at once, one a success frame
\* and the other a decode failure, each the response to its own request.
C10_Witness ==
    \E c, d \in Conns :
        /\ pc[c] = "WritingResponse" /\ pc[d] = "WritingResponse"
        /\ out[c] # <<>> /\ out[c][1] = 0
        /\ out[d] # <<>> /\ out[d][1] = 1
        /\ calls[c] # <<>> /\ calls[d] # <<>>
        /\ calls[c] # calls[d]

\* The handler of c meets an error of its own in this step: a read that
\* finds the stream ended, an error response begun (invalid size, short
\* payload, decode failure), or a write that fails.
ErrorStep(c) ==
    \/ outcome[c] = "none" /\ outcome'[c] \in {"short_length", "write_failed"}
    \/ /\ Len(sent'[c]) = Len(sent[c]) + 1
       /\ sent'[c][Len(sent'[c])].fn = "send_error"

\* The handler of c has met an error of its own.
Errored(c) ==
    \/ outcome[c] \in {"short_length", "write_failed"}
    \/ sent[c] # <<>> /\ sent[c][1].fn = "send_error"

\* C11: a step in which one handler meets an error changes nothing of main
\* and the listener, and nothing of any other connection; a connection
\* served next to one that failed holds exactly the response its own
\* request calls for; and with a handler failed the accept loop still
\* takes a waiting connection.
C11_ErrorsContained ==
    /\ [][\A c \in Conns :
            ErrorStep(c) =>
                /\ mainVars' = mainVars
                /\ \A d \in Conns \ {c} :
                      /\ Handler(d)' = Handler(d)
                      /\ eof'[d] = eof[d] /\ gone'[d] = gone[d]]_vars
    /\ [](\A c, d \in Conns :
            (c # d /\ Errored(c)) =>
                /\ outcome[d] = "served" => out[d] = OwnResponse(d)
                /\ (mainpc = "select" /\ running = NoTask /\ pc[d] = "Backlog")
                      => ENABLED Accept)

\* C11 is reached: the handler of the first connection failed on its write
\* of an error response while main was in select!, and the connection
\* accepted after it was served the complete success frame.
C11_Witness ==
    /\ mainpc = "select"
    /\ outcome[1] = "write_failed"
    /\ sent[1] # <<>> /\ sent[1][1].fn = "send_error"
    /\ outcome[2] = "served"
    /\ out[2] = <<0, 0, 0, 0, 3, 87, 137, 0>>

\* C12: a failed accept changes nothing but the count of failures: main
\* stays in select!, no connection is touched, and select! is left only on
\* the interrupt signal; and after any number of failed accepts a
\* connection that waits on the listener is accepted and handed to a
\* handler, unless the signal is delivered first.
C12_AcceptFailureNotFatal ==
    /\ [][acceptErrs' # acceptErrs =>
            /\ acceptErrs' = acceptErrs + 1
            /\ mainpc = "select" /\ mainpc' = "select"
            /\ exitCode' = "none"
            /\ connVars' = connVars]_vars
    /\ [][(mainpc = "select" /\ mainpc' # "select") => sigint]_vars
    /\ \A c \in Conns :
          (acceptErrs > 0 /\ pc[c] = "Backlog")
              ~> (pc[c] = "ReadingLength" \/ sigint)

\* C12 is reached: accept has failed as often as it may, main is still in
\* select! with no signal delivered, one connection has been accepted and
\* served and the next one waits with the accept loop ready to take it.
C12_Witness ==
    /\ acceptErrs = MaxAcceptErrs
    /\ mainpc = "select" /\ ~sigint
    /\ outcome[1] = "served"
    /\ pc[2] = "Backlog"
    /\ ENABLED AcceptOk(2)

\* C13 (as claimed): the process ends with an error only when binding the
\* endpoint failed; no failure after the bind, in the accept loop or in a
\* handler makes main return an error.
C13_OnlyBindFailureFatal == exitCode \in {"none", "ok", "err_bind"}

\* C14 (as claimed): when main comes to bind, no artifact is left at the
\* socket path, and whenever the process has ended after a successful
\* bind, no artifact is left at the socket path.
C14_SocketFileRemoved ==
    /\ mainpc = "bind" => ~sockFile
    /\ (mainpc = "exit" /\ exitCode # "err_bind") => ~sockFile

\* A connection that accept has returned.
Accepted(c) == pc[c] \notin {"Unconnected", "Backlog"}

\* C15: in the step in which the shutdown branch of select! completes, and
\* ever after, no connection is accepted: one that waits on the listener
\* stays waiting and no handler state appears for it; and every connection
\* that accept has returned is in the hands of one handler task, which
\* holds it or has ended it: none is accepted and left without a handler.
C15_NoAcceptAfterShutdown ==
    /\ [][(mainpc' = "exit") =>
            \A c \in Conns :
                ~Accepted(c) => (pc'[c] = pc[c] /\ Handler(c)' = Handler(c))]_vars
    /\ [](mainpc = "exit" => \A c \in Conns : pc[c] \notin InFlight)
    /\ [](\A c \in Conns :
            /\ Accepted(c) => (pc[c] \in InFlight \/ outcome[c] # "none")
            /\ ~Accepted(c) => Handler(c) = <<pc[c], "none", <<>>, 0, NoData,
                                              <<>>, <<>>, <<>>, <<>>>>)

\* C15 is reached: the signal won while the second connection was waiting
\* on the listener; it was never accepted, and the first, accepted before,
\* had been served.
C15_Witness ==
    /\ mainpc = "exit" /\ exitCode = "ok"
    /\ outcome[1] = "served"
    /\ pc[2] = "Backlog"

\* The order of the states of a connection.
Rank(p) ==
    CASE p = "Unconnected" -> 0
      [] p = "Backlog" -> 1
      [] p = "ReadingLength" -> 2
      [] p = "ReadingPayload" -> 3
      [] p = "Processing" -> 4
      [] p = "WritingResponse" -> 5
      [] p = "Closed" -> 6

\* C16: a handler never steps back to an earlier state; length bytes are
\* read only in ReadingLength, payload bytes only in ReadingPayload, and
\* nothing is read or computed once a response is begun; process_image is
\* called at most once, in Processing, with all 4 length bytes read and
\* the buffer holding exactly the declared number of bytes; and no
\* response is begun, nor any byte of it written, before the 4 length
\* bytes are read.
C16_StepsSequential ==
    /\ [][\A c \in Conns :
            /\ Rank(pc'[c]) >= Rank(pc[c])
            /\ len_buf'[c] # len_buf[c] => pc[c] = "ReadingLength"
            /\ data'[c] # data[c] =>
                  \/ pc[c] = "ReadingLength" /\ pc'[c] = "ReadingPayload"
                  \/ pc[c] = "ReadingPayload"
            /\ calls'[c] # calls[c] => pc[c] = "Processing"
            /\ sent[c] # <<>> =>
                  /\ len_buf'[c] = len_buf[c] /\ data'[c] = data[c]
                  /\ calls'[c] = calls[c] /\ sent'[c] = sent[c]]_vars
    /\ [](\A c \in Conns :
            /\ Len(calls[c]) <= 1
            /\ calls[c] # <<>> =>
                  /\ Len(len_buf[c]) = 4
                  /\ calls[c][1].n = Declared(c)
                  /\ calls[c][1].cap = Declared(c)
            /\ pc[c] \in {"ReadingPayload", "Processing"} =>
                  Len(len_buf[c]) = 4
            /\ pc[c] = "Processing" => data[c].n = Declared(c)
            /\ (sent[c] # <<>> \/ out[c] # <<>>) => Len(len_buf[c]) = 4)

\* C16 is reached: a handler read the length 10 MiB, then 10 MiB of
\* payload, called process_image once, which failed, and is part way
\* through writing the error response.
C16_Witness ==
    \E c \in Conns :
        /\ len_buf[c] = <<0, 160, 0, 0>>
        /\ calls[c] = <<[cap |-> 10485760, n |-> 10485760, b |-> 104]>>
        /\ pc[c] = "WritingResponse"
        /\ out[c] # <<>>

\* The handler of c attempts a write in this step: it begins a response,
\* or it is polled while a response is pending.
WriteAttempt(c) ==
    \/ sent'[c] # sent[c]
    \/ /\ pc[c] = "WritingResponse"
       /\ mainpc' = mainpc
       /\ <<pc[c], wseg[c], out[c]>>' # <<pc[c], wseg[c], out[c]>>

\* C17: a write attempted on a stream whose peer has closed fails, and
\* the handler ends there: the connection is Closed in that same step with
\* no byte added to the stream, main and every other connection are left
\* as they were, and from then on nothing of the connection changes: no
\* retry, no further write, no read.
C17_WriteFailureCloses ==
    /\ [][\A c \in Conns :
            (WriteAttempt(c) /\ gone[c]) =>
                /\ pc'[c] = "Closed"
                /\ outcome'[c] = "write_failed"
                /\ out'[c] = out[c]
                /\ wseg'[c] # <<>>
                /\ len_buf'[c] = len_buf[c] /\ data'[c] = data[c]
                /\ mainVars' = mainVars
                /\ \A d \in Conns \ {c} : Handler(d)' = Handler(d)]_vars
    /\ [][\A c \in Conns :
            outcome[c] = "write_failed" => Handler(c)' = Handler(c)]_vars
    /\ [](\A c \in Conns :
            outcome[c] = "write_failed" =>
                /\ pc[c] = "Closed"
                /\ Len(sent[c]) = 1
                /\ out[c] # Frame(IF sent[c][1].fn = "send_response"
                                  THEN 0 ELSE 1, sent[c][1].arg))

\* C17 is reached: the peer closed part way through a success response;
\* the next write failed and the handler closed the connection with the
\* frame cut short, while main is still in select!.
C17_Witness ==
    \E c \in Conns :
        /\ outcome[c] = "write_failed"
        /\ out[c] # <<>> /\ out[c][1] = 0
        /\ sent[c][1].fn = "send_response"
        /\ wseg[c] # <<>>
        /\ mainpc = "select"

\* C18: in every state the payload buffer of a handler is unallocated, or
\* it was allocated after all 4 length bytes were read, for exactly the
\* declared length N with 1 <= N <= 10,485,760, and holds at most N bytes;
\* a declared 10,485,760 is given its buffer as soon as it is read, and a
\* declared 10,485,761, like every length above it, never gets one.
C18_BufferWithinCap ==
    \A c \in Conns :
        /\ Len(len_buf[c]) < 4 => data[c] = NoData
        /\ data[c] # NoData =>
              /\ data[c].cap = Declared(c)
              /\ data[c].cap >= 1 /\ data[c].cap <= 10485760
              /\ data[c].n >= 0 /\ data[c].n <= data[c].cap
        /\ len_buf[c] = <<0, 160, 0, 0>> =>
              (data[c].cap = 10485760 /\ sent[c] # <<ErrorCall(InvalidSizeMsg)>>)
        /\ (Len(len_buf[c]) = 4 /\ Declared(c) >= 10485761) =>
              (data[c] = NoData /\ pc[c] \notin {"ReadingPayload", "Processing"})

\* C18 is reached: one connection declared 10,485,760 and its buffer of
\* that length is full, the other declared 10,485,761 and was refused
\* without a buffer.
C18_Witness ==
    \E c, d \in Conns :
        /\ len_buf[c] = <<0, 160, 0, 0>>
        /\ data[c] = [cap |-> 10485760, n |-> 10485760, b |-> ImgByte]
        /\ len_buf[d] = <<0, 160, 0, 1>>
        /\ data[d] = NoData
        /\ sent[d] = <<ErrorCall(InvalidSizeMsg)>>

\* The length field of the response bytes o, once all 4 of its bytes are
\* there.
LengthField(o) == U32FromBE(SubSeq(o, 2, 5))

\* C19: on every stream that carries the length field of a response, the
\* field read big-endian is the number of bytes of the payload the handler
\* passed to send_response or send_error; the bytes after the field are
\* bytes of that payload, never more than the field says, and exactly as
\* many once the response has been written out.
C19_LengthFieldMatchesPayload ==
    \A c \in Conns :
        Len(out[c]) >= 5 =>
            /\ sent[c] # <<>>
            /\ LengthField(out[c]) = Len(sent[c][1].arg)
            /\ Len(out[c]) - 5 <= LengthField(out[c])
            /\ SubSeq(out[c], 6, Len(out[c]))
                  = SubSeq(sent[c][1].arg, 1, Len(out[c]) - 5)
            /\ outcome[c] = "served" => Len(out[c]) - 5 = LengthField(out[c])

\* C19 is reached: one peer holds a complete success response whose field
\* says 3 before 3 bytes of image, the other a complete error response
\* whose field says 17 before a message of 17 bytes.
C19_Witness ==
    \E c, d \in Conns :
        /\ outcome[c] = "served" /\ outcome[d] = "served"
        /\ out[c][1] = 0 /\ LengthField(out[c]) = 3 /\ Len(out[c]) = 8
        /\ out[d][1] = 1 /\ LengthField(out[d]) = 17 /\ Len(out[d]) = 22

\* C20: at most one connection is in Processing, and it is the task that
\* holds the thread; while a handler is in Processing the only thing of
\* the program that changes is that handler leaving Processing with its
\* process_image call made: no other handler takes a step, no waiting
\* connection is accepted, no accept fails, and main stays in select! even
\* when the signal has been delivered.  Peers connecting, closing and the
\* signal arriving are not steps of the program.
C20_ProcessingHoldsThread ==
    /\ [](/\ Cardinality({c \in Conns : pc[c] = "Processing"}) <= 1
          /\ \A c \in Conns : pc[c] = "Processing" <=> running = c
          /\ running # NoTask => mainpc = "select")
    /\ [][\A c \in Conns :
            pc[c] = "Processing" =>
                /\ <<mainpc, exitCode, sockFile, acceptErrs>>'
                      = <<mainpc, exitCode, sockFile, acceptErrs>>
                /\ \A d \in Conns \ {c} :
                      \/ Handler(d)' = Handler(d)
                      \/ pc[d] = "Unconnected" /\ pc'[d] = "Backlog"
                /\ Handler(c)' # Handler(c) =>
                      /\ calls'[c] = <<data[c]>>
                      /\ pc'[c] \in {"WritingResponse", "Closed"}
                      /\ running' = NoTask]_vars

\* C20 is reached: the first connection is in Processing while the signal
\* has been delivered, the second connection waits on the listener, and
\* main is still in select!.
C20_Witness ==
    /\ pc[1] = "Processing"
    /\ running = 1
    /\ sigint
    /\ mainpc = "select"
    /\ pc[2] = "Backlog"
=============================================================================
